---- MODULE Spec2Model ----
(***************************************************************************)
(* Model of DisplayWidget (src/src/dispwidget.cc): the widget that turns   *)
(* mouse move / press / release / leave events into link hover and click   *)
(* tracking, text selection, cursor and status bar feedback and link       *)
(* commands.                                                               *)
(*                                                                         *)
(* Pixel positions are the points (p, 0) for p in 0..MaxPos; position 0 is *)
(* QPoint(0,0), the only point for which QPoint::isNull() is true.         *)
(* C strings are tuples of bytes, QStrings are tuples of code points.      *)
(* The formatter, the status bar and the command window are seen through   *)
(* the calls the widget makes on them: set_clicked(), set_sel_range() and  *)
(* processCommand() calls of the last handler are kept in calls, pushes    *)
(* and cmds.                                                               *)
(***************************************************************************)
EXTENDS Integers, Sequences, FiniteSets, TLC

\* Largest pixel position delivered by the windowing system.
MaxPos == 8

Positions == 0..MaxPos

(***************************************************************************)
(* The formatter's display list (layout fixed during a run).               *)
(***************************************************************************)

\* The null pointer (CHtmlDispLink* / CHtmlDisp* of value 0).
NoLink == 0
NoDisp == 0

\* Values of CHtmlDispLink::clicked_.
CHtmlDispLink_none    == "none"
CHtmlDispLink_hover   == "hover"
CHtmlDispLink_clicked == "clicked"

\* Cursor shapes of the widget.
ArrowCursor        == "default"
PointingHandCursor == "hand"

\* The links of the layout: href_ (bytes), is_clickable_link(), get_append(),
\* get_noenter().
LinkTable ==
    << [href |-> <<110, 111, 114, 116, 104>>, clickable |-> TRUE,
        append |-> FALSE, noenter |-> FALSE],
       [href |-> <<116, 97, 107, 101, 32>>, clickable |-> TRUE,
        append |-> TRUE, noenter |-> TRUE],
       [href |-> <<109, 97, 112>>, clickable |-> FALSE,
        append |-> FALSE, noenter |-> FALSE] >>

Links == 1..Len(LinkTable)

\* The display objects of the layout: get_alt_text() (hasAlt = non-null
\* pointer, alt = the bytes before the terminating NUL) and the link
\* get_link() answers for the object.
DispTable ==
    << [hasAlt |-> FALSE, alt |-> <<>>, link |-> NoLink],
       [hasAlt |-> TRUE, alt |-> <<99, 97, 102, 195, 169>>, link |-> NoLink],
       [hasAlt |-> FALSE, alt |-> <<>>, link |-> 1],
       [hasAlt |-> FALSE, alt |-> <<>>, link |-> 2],
       [hasAlt |-> TRUE, alt |-> <<239, 187, 191, 78>>, link |-> 1],
       [hasAlt |-> TRUE, alt |-> <<>>, link |-> 3],
       [hasAlt |-> TRUE, alt |-> <<226, 130, 172, 240, 159, 152, 128>>,
        link |-> 3],
       [hasAlt |-> TRUE, alt |-> <<>>, link |-> NoLink] >>

\* formatter->find_by_pos(docPos, true): the display object containing the
\* position, NoDisp where the layout has none.
find_by_pos(p) == p % (Len(DispTable) + 1)

\* disp->get_link(formatter, x, y)
get_link(d) == DispTable[d].link

\* formatter->find_textofs_by_pos(pos): the text offset nearest to a position.
find_textofs_by_pos(p) == 3 * p + 1

\* formatter->get_text_ofs_max()
get_text_ofs_max == 3 * MaxPos + 4

\* strlen()
strlen(s) == Len(s)

\* A UTF-8 continuation byte at index i of s.
isContinuation(s, i) == Len(s) >= i /\ s[i] >= 128 /\ s[i] < 192

\* The bytes of s from index i on.
dropBytes(s, i) == SubSeq(s, i, Len(s))

\* The decoder behind QString::fromUtf8(): one- to four-byte sequences
\* decode to their code point (overlong forms, surrogates and values above
\* U+10FFFF are not sequences); any other byte decodes to U+FFFD.
RECURSIVE convertToUnicode(_)
convertToUnicode(s) ==
    IF s = <<>> THEN <<>>
    ELSE IF s[1] < 128 THEN <<s[1]>> \o convertToUnicode(Tail(s))
    ELSE IF /\ s[1] >= 194 /\ s[1] < 224
            /\ isContinuation(s, 2)
         THEN <<(s[1] - 192) * 64 + (s[2] - 128)>>
              \o convertToUnicode(dropBytes(s, 3))
    ELSE IF /\ s[1] >= 224 /\ s[1] < 240
            /\ isContinuation(s, 2) /\ isContinuation(s, 3)
            /\ (s[1] = 224 => s[2] >= 160)
            /\ (s[1] = 237 => s[2] < 160)
         THEN <<(s[1] - 224) * 4096 + (s[2] - 128) * 64 + (s[3] - 128)>>
              \o convertToUnicode(dropBytes(s, 4))
    ELSE IF /\ s[1] >= 240 /\ s[1] < 245
            /\ isContinuation(s, 2) /\ isContinuation(s, 3)
            /\ isContinuation(s, 4)
            /\ (s[1] = 240 => s[2] >= 144)
            /\ (s[1] = 244 => s[2] < 144)
         THEN <<(s[1] - 240) * 262144 + (s[2] - 128) * 4096
                + (s[3] - 128) * 64 + (s[4] - 128)>>
              \o convertToUnicode(dropBytes(s, 5))
    ELSE <<65533>> \o convertToUnicode(Tail(s))

\* QString::fromUtf8(): a byte order mark at the start of the input is
\* skipped, the rest is decoded.
fromUtf8(s) ==
    IF Len(s) >= 3 /\ s[1] = 239 /\ s[2] = 187 /\ s[3] = 191
    THEN convertToUnicode(dropBytes(s, 4))
    ELSE convertToUnicode(s)

VARIABLES
    fHoverLink,      \* DisplayWidget::fHoverLink
    fClickedLink,    \* DisplayWidget::fClickedLink
    fInSelectMode,   \* DisplayWidget::fInSelectMode
    fSelectOrigin,   \* DisplayWidget::fSelectOrigin
    clicked_,        \* CHtmlDispLink::clicked_ of every link
    cursor,          \* the widget's cursor shape
    statusMsg,       \* the status bar's message
    enableLinks,     \* settings()->enableLinks
    highlightLinks,  \* settings()->highlightLinks
    ev,              \* the event handled last
    calls,           \* set_clicked() calls made by the last handler
    cmds,            \* processCommand() calls made by the last handler
    pushes,          \* set_sel_range() calls made by the last handler
    scenD,           \* progress of the press / move off / move on / release gesture
    held,            \* links referenced before the leave handled just before
    layoutGen,       \* which layout the formatter's display list belongs to
    refGen,          \* the layouts fHoverLink and fClickedLink were taken from
    click            \* the link the last arming press armed, and its cancellation

vars == <<fHoverLink, fClickedLink, fInSelectMode, fSelectOrigin, clicked_,
          cursor, statusMsg, enableLinks, highlightLinks,
          ev, calls, cmds, pushes, scenD, held, layoutGen, refGen,
          click>>

(***************************************************************************)
(* The link-tracking part of the widget as a record, so that the handlers' *)
(* statements compose in program order.                                    *)
(***************************************************************************)
Tracking ==
    [fHoverLink |-> fHoverLink, fClickedLink |-> fClickedLink,
     clicked_ |-> clicked_, cursor |-> cursor, statusMsg |-> statusMsg,
     calls |-> <<>>]

\* CHtmlDispLink::set_clicked(win, mode) on link l.
set_clicked(s, l, mode) ==
    [s EXCEPT !.clicked_[l] = mode,
              !.calls = Append(@, [link |-> l, mode |-> mode,
                                   was |-> s.clicked_[l]])]

\* QWidget::unsetCursor() / setCursor()
unsetCursor(s) == [s EXCEPT !.cursor = ArrowCursor]
setCursor(s, c) == [s EXCEPT !.cursor = c]

\* statusBar()->clearMessage() / showMessage(), bracketed by
\* setUpdatesEnabled(false) / setUpdatesEnabled(true).
clearMessage(s) == [s EXCEPT !.statusMsg = <<>>]
showMessage(s, text) == [s EXCEPT !.statusMsg = text]

\* fInvalidateLinkTracking() that forgets the clicked link only.
fInvalidateLinkTracking_clickedOnly(s) ==
    clearMessage(unsetCursor(
        IF s.fClickedLink # NoLink
        THEN [set_clicked(s, s.fClickedLink, CHtmlDispLink_none)
                 EXCEPT !.fClickedLink = NoLink]
        ELSE s))

\* fInvalidateLinkTracking() that clears the references but leaves the links'
\* modes alone.
fInvalidateLinkTracking_refsOnly(s) ==
    clearMessage(unsetCursor(
        [s EXCEPT !.fClickedLink = NoLink, !.fHoverLink = NoLink]))

\* fInvalidateLinkTracking() that forgets the hovered link only.
fInvalidateLinkTracking_hoverOnly(s) ==
    clearMessage(unsetCursor(
        IF s.fHoverLink # NoLink
        THEN [set_clicked(s, s.fHoverLink, CHtmlDispLink_none)
                 EXCEPT !.fHoverLink = NoLink]
        ELSE s))

\* DisplayWidget::fInvalidateLinkTracking()
fInvalidateLinkTracking(s) ==
    LET s1 == IF s.fClickedLink # NoLink
              THEN [set_clicked(s, s.fClickedLink, CHtmlDispLink_none)
                       EXCEPT !.fClickedLink = NoLink]
              ELSE s
        s2 == IF s1.fHoverLink # NoLink
              THEN [set_clicked(s1, s1.fHoverLink, CHtmlDispLink_none)
                       EXCEPT !.fHoverLink = NoLink]
              ELSE s1
    IN  clearMessage(unsetCursor(s2))

\* The tail of updateLinkTracking(): "We don't know what it was."
forgetTracking(s) ==
    LET s1 == unsetCursor(clearMessage(s))
    IN  IF s1.fHoverLink # NoLink
        THEN [set_clicked(s1, s1.fHoverLink, CHtmlDispLink_none)
                 EXCEPT !.fHoverLink = NoLink]
        ELSE s1

\* trackNewLink() without the reset of the previous hover.
trackNewLink_keepsOldMode(s, link) == [s EXCEPT !.fHoverLink = link]

\* updateLinkTracking(): "If we're tracking a hover and it's a new link, track
\* this one and forget about the previous one."
trackNewLink(s, link) ==
    IF link # s.fHoverLink
    THEN [(IF s.fHoverLink # NoLink
           THEN set_clicked(s, s.fHoverLink, CHtmlDispLink_none)
           ELSE s) EXCEPT !.fHoverLink = link]
    ELSE s

\* hoverColor() with the click-tracking test inverted.
hoverColor_whileArmed(s, link) ==
    IF highlightLinks /\ s.fClickedLink # NoLink
    THEN set_clicked(s, link, CHtmlDispLink_hover)
    ELSE s

\* updateLinkTracking(): "Only change its color if we're not click-tracking
\* another link."
hoverColor(s, link) ==
    IF highlightLinks /\ s.fClickedLink = NoLink
    THEN set_clicked(s, link, CHtmlDispLink_hover)
    ELSE s

\* alreadyTracking() without the early return.
alreadyTracking_never(s, link) == FALSE

\* updateLinkTracking(): "If we're already tracking a hover over this link,
\* we don't need to do anything else."
alreadyTracking(s, link) == link = s.fHoverLink

\* updateLinkTracking(), the branch taken when settings()->enableLinks is set
\* and the position has display object disp.
trackLink(s, disp) ==
    LET link == get_link(disp)
        isClickable == link # NoLink /\ LinkTable[link].clickable
        s1 == trackNewLink(s, link)
        s2 == IF isClickable
              THEN hoverColor(setCursor(s1, PointingHandCursor), link)
              ELSE s1
    IN  IF alreadyTracking(s, link) THEN s
        ELSE IF DispTable[disp].hasAlt /\ strlen(DispTable[disp].alt) > 0
             THEN showMessage(s2, fromUtf8(DispTable[disp].alt))
        ELSE IF isClickable
             THEN showMessage(s2, fromUtf8(LinkTable[link].href))
        ELSE forgetTracking(s2)

\* DisplayWidget::updateLinkTracking(mousePos); cursorPos is
\* mapFromGlobal(QCursor::pos()), used when mousePos.isNull().
docPosOf(mousePos, cursorPos) == IF mousePos = 0 THEN cursorPos ELSE mousePos

updateLinkTracking_ignoresSetting(s, docPos) ==
    LET disp == find_by_pos(docPos)
    IN  IF disp = NoDisp
        THEN IF s.fHoverLink # NoLink
             THEN clearMessage(unsetCursor(
                      [set_clicked(s, s.fHoverLink, CHtmlDispLink_none)
                          EXCEPT !.fHoverLink = NoLink]))
             ELSE s
        ELSE trackLink(s, disp)

updateLinkTracking(s, docPos) ==
    LET disp == find_by_pos(docPos)
    IN  IF disp = NoDisp
        THEN IF s.fHoverLink # NoLink
             THEN clearMessage(unsetCursor(
                      [set_clicked(s, s.fHoverLink, CHtmlDispLink_none)
                          EXCEPT !.fHoverLink = NoLink]))
             ELSE s
        ELSE IF enableLinks THEN trackLink(s, disp)
        ELSE forgetTracking(s)

\* Writes a tracking record back to the widget.
Store(s) ==
    /\ fHoverLink' = s.fHoverLink
    /\ fClickedLink' = s.fClickedLink
    /\ clicked_' = s.clicked_
    /\ cursor' = s.cursor
    /\ statusMsg' = s.statusMsg
    /\ calls' = s.calls

Settings == <<enableLinks, highlightLinks>>

\* The link get_link() answers at a position, NoLink where the position has
\* no display object or the object is in no link.
LinkAt(p) == IF find_by_pos(p) = NoDisp THEN NoLink ELSE get_link(find_by_pos(p))

\* True when the display object at a position has non-empty ALT text.
HasAltAt(p) ==
    /\ find_by_pos(p) # NoDisp
    /\ DispTable[find_by_pos(p)].hasAlt
    /\ strlen(DispTable[find_by_pos(p)].alt) > 0

\* DisplayWidget::DisplayWidget(): nothing tracked, every link of the fresh
\* layout in mode none, default cursor, empty status bar, no selection.
Init ==
    /\ fHoverLink = NoLink
    /\ fClickedLink = NoLink
    /\ fInSelectMode = FALSE
    /\ fSelectOrigin = 0
    /\ clicked_ = [l \in Links |-> CHtmlDispLink_none]
    /\ cursor = ArrowCursor
    /\ statusMsg = <<>>
    /\ enableLinks \in BOOLEAN
    /\ highlightLinks \in BOOLEAN
    /\ ev = [kind |-> "init", pos |-> 0, left |-> FALSE, again |-> FALSE]
    /\ calls = <<>>
    /\ cmds = <<>>
    /\ pushes = <<>>
    /\ scenD = [step |-> 0, a |-> NoLink, b |-> NoLink]
    /\ held = {}
    /\ layoutGen = 0
    /\ refGen = [hover |-> 0, clicked |-> 0]
    /\ click = [armed |-> NoLink, cancelled |-> NoLink]

\* dragRange() that reads both offsets at the event's position.
dragRange_sameEnds(origin, pos) ==
    <<find_textofs_by_pos(pos), find_textofs_by_pos(pos)>>

\* mouseMoveEvent(): the range handed to set_sel_range() during a drag.
dragRange(origin, pos) ==
    <<find_textofs_by_pos(origin), find_textofs_by_pos(pos)>>

\* mouseMoveEvent() whose selection branch does not return.
mouseMoveEvent_alwaysTracks(pos, left, cursorPos) ==
    /\ Store(updateLinkTracking(Tracking, docPosOf(pos, cursorPos)))
    /\ pushes' = IF left /\ fInSelectMode
                 THEN <<dragRange(fSelectOrigin, pos)>> ELSE <<>>
    /\ ev' = [kind |-> IF left /\ fInSelectMode THEN "drag" ELSE "move",
              pos |-> docPosOf(pos, cursorPos), left |-> left,
              again |-> FALSE]
    /\ cmds' = <<>>
    /\ UNCHANGED <<fInSelectMode, fSelectOrigin, Settings>>

\* DisplayWidget::mouseMoveEvent(e): pos = e->pos(), left = e->buttons() &
\* Qt::LeftButton, cursorPos = the pointer position read by
\* updateLinkTracking() when pos is the null point.  ev.kind is "drag" when
\* the handler updated the selection and "move" when it updated link
\* tracking; ev.again marks a link-tracking update at the position of the
\* link-tracking update handled just before it.
mouseMoveEvent(pos, left, cursorPos) ==
    IF left /\ fInSelectMode
    THEN /\ pushes' = <<dragRange(fSelectOrigin, pos)>>
         /\ ev' = [kind |-> "drag", pos |-> pos, left |-> left,
                   again |-> FALSE]
         /\ calls' = <<>>
         /\ cmds' = <<>>
         /\ UNCHANGED <<fHoverLink, fClickedLink, fInSelectMode,
                        fSelectOrigin, clicked_, cursor, statusMsg,
                        Settings>>
    ELSE /\ Store(updateLinkTracking(Tracking, docPosOf(pos, cursorPos)))
         /\ ev' = [kind |-> "move", pos |-> docPosOf(pos, cursorPos),
                   left |-> left,
                   again |-> (ev.kind = "move"
                              /\ ev.pos = docPosOf(pos, cursorPos))]
         /\ cmds' = <<>>
         /\ pushes' = <<>>
         /\ UNCHANGED <<fInSelectMode, fSelectOrigin, Settings>>

\* leaveEvent() that also ends selection mode.
leaveEvent_endsSelection ==
    /\ Store(fInvalidateLinkTracking(Tracking))
    /\ ev' = [kind |-> "leave", pos |-> 0, left |-> FALSE, again |-> FALSE]
    /\ cmds' = <<>>
    /\ pushes' = <<>>
    /\ fInSelectMode' = FALSE
    /\ UNCHANGED <<fSelectOrigin, Settings>>

\* DisplayWidget::leaveEvent()
leaveEvent ==
    /\ Store(fInvalidateLinkTracking(Tracking))
    /\ ev' = [kind |-> "leave", pos |-> 0, left |-> FALSE, again |-> FALSE]
    /\ cmds' = <<>>
    /\ pushes' = <<>>
    /\ UNCHANGED <<fInSelectMode, fSelectOrigin, Settings>>

\* mousePressEvent(): the range that clears the formatter's selection.
emptyRange == <<get_text_ofs_max, get_text_ofs_max>>

\* clickTrack() that does not consult settings()->enableLinks.
clickTrack_ignoresSetting(s) ==
    IF LinkTable[s.fHoverLink].clickable
    THEN [set_clicked(s, s.fHoverLink, CHtmlDispLink_clicked)
             EXCEPT !.fClickedLink = s.fHoverLink]
    ELSE s

\* mousePressEvent(): "Click-track it if it's clickable."
clickTrack(s) ==
    IF LinkTable[s.fHoverLink].clickable /\ enableLinks
    THEN [set_clicked(s, s.fHoverLink, CHtmlDispLink_clicked)
             EXCEPT !.fClickedLink = s.fHoverLink]
    ELSE s

\* mousePressEvent() that starts a selection without testing fInSelectMode.
mousePressEvent_restartsSelection(pos, left) ==
    /\ ev' = [kind |-> "press", pos |-> pos, left |-> left, again |-> FALSE]
    /\ cmds' = <<>>
    /\ IF fHoverLink = NoLink
       THEN IF left
            THEN /\ fInSelectMode' = TRUE
                 /\ fSelectOrigin' = pos
                 /\ pushes' = <<emptyRange>>
                 /\ calls' = <<>>
                 /\ UNCHANGED <<fHoverLink, fClickedLink, clicked_,
                                cursor, statusMsg, Settings>>
            ELSE /\ calls' = <<>>
                 /\ pushes' = <<>>
                 /\ UNCHANGED <<fHoverLink, fClickedLink, fInSelectMode,
                                fSelectOrigin, clicked_, cursor, statusMsg, Settings>>
       ELSE /\ Store(clickTrack(Tracking))
            /\ pushes' = <<>>
            /\ UNCHANGED <<fInSelectMode, fSelectOrigin, Settings>>

\* DisplayWidget::mousePressEvent(e)
mousePressEvent(pos, left) ==
    /\ ev' = [kind |-> "press", pos |-> pos, left |-> left, again |-> FALSE]
    /\ cmds' = <<>>
    /\ IF fHoverLink = NoLink
       THEN IF left /\ ~fInSelectMode
            THEN /\ fInSelectMode' = TRUE
                 /\ fSelectOrigin' = pos
                 /\ pushes' = <<emptyRange>>
                 /\ calls' = <<>>
                 /\ UNCHANGED <<fHoverLink, fClickedLink, clicked_,
                                cursor, statusMsg, Settings>>
            ELSE /\ calls' = <<>>
                 /\ pushes' = <<>>
                 /\ UNCHANGED <<fHoverLink, fClickedLink, fInSelectMode,
                                fSelectOrigin, clicked_, cursor, statusMsg, Settings>>
       ELSE /\ Store(clickTrack(Tracking))
            /\ pushes' = <<>>
            /\ UNCHANGED <<fInSelectMode, fSelectOrigin, Settings>>

\* processCommand() with the no-enter flag passed on without negation.
processCommand_noNegation(l) ==
    [cmd |-> LinkTable[l].href, len |-> strlen(LinkTable[l].href),
     append |-> LinkTable[l].append, enter |-> LinkTable[l].noenter]

\* gameWindow()->processCommand(cmd, strlen(cmd), append, enter, OS_CMD_NONE)
\* for the clicked link l.
processCommand(l) ==
    [cmd |-> LinkTable[l].href, len |-> strlen(LinkTable[l].href),
     append |-> LinkTable[l].append, enter |-> ~LinkTable[l].noenter]

\* mouseReleaseEvent(): "Put it back in hovering mode."
backToHover(s) ==
    IF highlightLinks
    THEN set_clicked(s, s.fClickedLink, CHtmlDispLink_hover)
    ELSE s

\* hoverOther() that leaves the other link alone.
hoverOther_nothing(s) == s

\* mouseReleaseEvent(): "Otherwise, if we're hovering over another link, put
\* that one in hover mode."
hoverOther(s) ==
    IF s.fHoverLink # NoLink
    THEN set_clicked(s, s.fHoverLink, CHtmlDispLink_hover)
    ELSE s

\* mouseReleaseEvent(): "If we're still hovering over the clicked link,
\* process it."
stillHovering(s) == s.fClickedLink = s.fHoverLink

\* mouseReleaseEvent() whose selection branch does not return.
mouseReleaseEvent_noReturn ==
    /\ ev' = [kind |-> "release", pos |-> 0, left |-> FALSE, again |-> FALSE]
    /\ pushes' = <<>>
    /\ fInSelectMode' = FALSE
    /\ IF fClickedLink = NoLink
       THEN /\ cmds' = <<>>
            /\ calls' = <<>>
            /\ UNCHANGED <<fHoverLink, fClickedLink, clicked_, cursor,
                           statusMsg>>
       ELSE IF stillHovering(Tracking)
       THEN /\ cmds' = <<processCommand(fClickedLink)>>
            /\ Store([backToHover(Tracking) EXCEPT !.fClickedLink = NoLink])
       ELSE /\ cmds' = <<>>
            /\ Store([hoverOther(Tracking) EXCEPT !.fClickedLink = NoLink])
    /\ UNCHANGED <<fSelectOrigin, Settings>>

\* DisplayWidget::mouseReleaseEvent()
mouseReleaseEvent ==
    /\ ev' = [kind |-> "release", pos |-> 0, left |-> FALSE, again |-> FALSE]
    /\ pushes' = <<>>
    /\ IF fInSelectMode
       THEN /\ fInSelectMode' = FALSE
            /\ cmds' = <<>>
            /\ calls' = <<>>
            /\ UNCHANGED <<fHoverLink, fClickedLink, fSelectOrigin, clicked_,
                           cursor, statusMsg, Settings>>
       ELSE IF fClickedLink = NoLink
       THEN /\ cmds' = <<>>
            /\ calls' = <<>>
            /\ UNCHANGED <<fHoverLink, fClickedLink, fInSelectMode,
                           fSelectOrigin, clicked_, cursor, statusMsg, Settings>>
       ELSE /\ IF stillHovering(Tracking)
               THEN /\ cmds' = <<processCommand(fClickedLink)>>
                    /\ Store([backToHover(Tracking)
                                 EXCEPT !.fClickedLink = NoLink])
               ELSE /\ cmds' = <<>>
                    /\ Store([hoverOther(Tracking)
                                 EXCEPT !.fClickedLink = NoLink])
            /\ UNCHANGED <<fInSelectMode, fSelectOrigin, Settings>>

(***************************************************************************)
(* Observer of the gesture "press on a hovered clickable link a (selection *)
(* mode off), move to a position without a link, move onto another         *)
(* clickable link b, release": step counts how many of these four events,  *)
(* in this order and with nothing in between, have just been handled.      *)
(***************************************************************************)
NoGesture == [step |-> 0, a |-> NoLink, b |-> NoLink]

Observe ==
    scenD' =
        IF ev'.kind = "press"
        THEN IF /\ fHoverLink # NoLink
                /\ LinkTable[fHoverLink].clickable
                /\ ~fInSelectMode
             THEN [step |-> 1, a |-> fHoverLink, b |-> NoLink]
             ELSE NoGesture
        ELSE IF ev'.kind = "move"
        THEN IF scenD.step = 1 /\ LinkAt(ev'.pos) = NoLink
             THEN [scenD EXCEPT !.step = 2]
             ELSE IF /\ scenD.step = 2
                     /\ LinkAt(ev'.pos) # NoLink
                     /\ LinkAt(ev'.pos) # scenD.a
                     /\ LinkTable[LinkAt(ev'.pos)].clickable
             THEN [scenD EXCEPT !.step = 3, !.b = LinkAt(ev'.pos)]
             ELSE NoGesture
        ELSE IF ev'.kind = "release" /\ scenD.step = 3
        THEN [scenD EXCEPT !.step = 4]
        ELSE NoGesture

\* Observer of a leave and the event after it: at a leave, held is the set
\* of links the hovered and the armed reference pointed to before it; the
\* event right after the leave still sees this set, any other event sees the
\* empty set.
ObserveLeave ==
    held' = IF ev'.kind = "leave"
            THEN {fHoverLink, fClickedLink} \ {NoLink}
            ELSE IF ev.kind = "leave" THEN held
            ELSE {}

\* Observer of the layout the references come from: a move that stores a
\* new link in fHoverLink takes it from the current layout, a press that
\* stores a link in fClickedLink copies fHoverLink.
ObserveRefs ==
    refGen' =
        [hover |-> IF /\ ev'.kind = "move"
                      /\ fHoverLink' # NoLink
                      /\ fHoverLink' # fHoverLink
                   THEN layoutGen
                   ELSE refGen.hover,
         clicked |-> IF /\ ev'.kind = "press"
                        /\ fClickedLink' # NoLink
                        /\ calls' # <<>>
                     THEN refGen.hover
                     ELSE refGen.clicked]

\* Observer of click tracking.  An arming press is a press whose handler
\* called set_clicked(): click.armed is the link of the last arming press
\* while no leave and no release outside selection mode has been handled
\* since; click.cancelled is the link whose arming press was followed by a
\* leave while no arming press has been handled since.
ObserveClick ==
    click' =
        IF ev'.kind = "press" /\ calls' # <<>>
        THEN [armed |-> fHoverLink, cancelled |-> NoLink]
        ELSE IF ev'.kind = "leave"
        THEN [armed |-> NoLink,
              cancelled |-> IF click.armed # NoLink THEN click.armed
                            ELSE click.cancelled]
        ELSE IF ev'.kind = "release" /\ ~fInSelectMode
        THEN [click EXCEPT !.armed = NoLink]
        ELSE click

MouseMove ==
    /\ \E pos \in Positions, left \in BOOLEAN :
           \E cursorPos \in (IF pos = 0 THEN Positions ELSE {pos}) :
               mouseMoveEvent(pos, left, cursorPos)
    /\ Observe /\ ObserveLeave /\ ObserveRefs /\ ObserveClick
    /\ UNCHANGED layoutGen
Leave ==
    /\ leaveEvent
    /\ Observe /\ ObserveLeave /\ ObserveRefs /\ ObserveClick
    /\ UNCHANGED layoutGen
MousePress ==
    /\ \E pos \in Positions, left \in BOOLEAN : mousePressEvent(pos, left)
    /\ Observe /\ ObserveLeave /\ ObserveRefs /\ ObserveClick
    /\ UNCHANGED layoutGen
MouseRelease ==
    /\ mouseReleaseEvent
    /\ Observe /\ ObserveLeave /\ ObserveRefs /\ ObserveClick
    /\ UNCHANGED layoutGen

Next == MouseMove \/ Leave \/ MousePress \/ MouseRelease

Spec == Init /\ [][Next]_vars

(***************************************************************************)
(* Re-layout.  The formatter replaces its display list: the links of the   *)
(* old layout are destroyed and the new layout's links start in mode none. *)
(* The window notifies the widget first, which invalidates its link        *)
(* tracking.                                                               *)
(***************************************************************************)
FreshLinks == [l \in Links |-> CHtmlDispLink_none]

\* A re-layout that does not notify the widget.
notifyRelayout_noInvalidate ==
    /\ Store([Tracking EXCEPT !.clicked_ = FreshLinks])
    /\ layoutGen' = 1 - layoutGen
    /\ ev' = [kind |-> "relayout", pos |-> 0, left |-> FALSE, again |-> FALSE]
    /\ cmds' = <<>>
    /\ pushes' = <<>>
    /\ UNCHANGED <<fInSelectMode, fSelectOrigin, Settings>>

\* The re-layout notification followed by the new layout.
notifyRelayout ==
    /\ Store([fInvalidateLinkTracking(Tracking) EXCEPT !.clicked_ = FreshLinks])
    /\ layoutGen' = 1 - layoutGen
    /\ ev' = [kind |-> "relayout", pos |-> 0, left |-> FALSE, again |-> FALSE]
    /\ cmds' = <<>>
    /\ pushes' = <<>>
    /\ UNCHANGED <<fInSelectMode, fSelectOrigin, Settings>>

Relayout ==
    /\ notifyRelayout
    /\ Observe /\ ObserveLeave /\ ObserveRefs /\ ObserveClick

NextRelayout == Next \/ Relayout

SpecRelayout == Init /\ [][NextRelayout]_vars

(***************************************************************************)
(* Settings changed while the widget is shown: the two flags the handlers  *)
(* read take new values, the widget is not told.                           *)
(***************************************************************************)
settingsChanged(links, highlight) ==
    /\ enableLinks' = links
    /\ highlightLinks' = highlight
    /\ ev' = [kind |-> "settings", pos |-> 0, left |-> FALSE, again |-> FALSE]
    /\ calls' = <<>>
    /\ cmds' = <<>>
    /\ pushes' = <<>>
    /\ UNCHANGED <<fHoverLink, fClickedLink, fInSelectMode, fSelectOrigin,
                   clicked_, cursor, statusMsg>>

SettingsChanged ==
    /\ \E links \in BOOLEAN, highlight \in BOOLEAN :
           settingsChanged(links, highlight)
    /\ Observe /\ ObserveLeave /\ ObserveRefs /\ ObserveClick
    /\ UNCHANGED layoutGen

NextSettings == Next \/ SettingsChanged

SpecSettings == Init /\ [][NextSettings]_vars

TypeOK ==
    /\ fHoverLink \in Links \cup {NoLink}
    /\ fClickedLink \in Links \cup {NoLink}
    /\ fInSelectMode \in BOOLEAN
    /\ fSelectOrigin \in Positions
    /\ clicked_ \in [Links -> {CHtmlDispLink_none, CHtmlDispLink_hover,
                                CHtmlDispLink_clicked}]
    /\ cursor \in {ArrowCursor, PointingHandCursor}
    /\ Len(calls) <= 3
    /\ Len(cmds) <= 1
    /\ Len(pushes) <= 1
    /\ click \in [armed : Links \cup {NoLink}, cancelled : Links \cup {NoLink}]

(***************************************************************************)
(* Properties.                                                             *)
(***************************************************************************)

LinksIn(mode) == {l \in Links : clicked_[l] = mode}

\* C1: in every reachable state at most one link has visual mode Clicked and
\* at most one link has visual mode Hover.
C1_AtMostOneClickedOneHover ==
    /\ Cardinality(LinksIn(CHtmlDispLink_clicked)) <= 1
    /\ Cardinality(LinksIn(CHtmlDispLink_hover)) <= 1

\* C1 witness: a move from a hovered, highlighted link straight onto another
\* clickable link, which now is the one link in Hover.
C1_Witness ==
    /\ ev.kind = "move"
    /\ Len(calls) = 2
    /\ calls[1].was = CHtmlDispLink_hover
    /\ calls[1].link # calls[2].link
    /\ calls[2].mode = CHtmlDispLink_hover
    /\ LinksIn(CHtmlDispLink_hover) = {fHoverLink}

\* The command a release of the button over the armed link l has to submit.
CommandOf(l) ==
    [cmd |-> LinkTable[l].href, len |-> Len(LinkTable[l].href),
     append |-> LinkTable[l].append, enter |-> ~LinkTable[l].noenter]

\* C2: a release dispatches a command iff the widget is not in selection
\* mode and an armed link exists that is the hovered link; then it dispatches
\* exactly one command: the armed link's destination, with the link's append
\* flag and the negation of its no-enter flag.  Otherwise it dispatches none.
C2_ReleaseDispatch ==
    [][ev'.kind = "release" =>
         cmds' = IF /\ ~fInSelectMode
                    /\ fClickedLink # NoLink
                    /\ fClickedLink = fHoverLink
                 THEN <<CommandOf(fClickedLink)>>
                 ELSE <<>>]_vars

\* C2 witness: a release has just dispatched the command of the link whose
\* append and no-enter flags are set.
C2_Witness ==
    /\ ev.kind = "release"
    /\ Len(cmds) = 1
    /\ cmds[1].cmd = LinkTable[2].href
    /\ cmds[1].append
    /\ ~cmds[1].enter

\* C3: after a release that commits a click (armed link = hovered link) the
\* link's mode is Hover when highlighting is enabled and None when it is
\* disabled; it is never left in Clicked.
C3_CommitRestoresMode ==
    [][(/\ ev'.kind = "release"
        /\ ~fInSelectMode
        /\ fClickedLink # NoLink
        /\ fClickedLink = fHoverLink) =>
           clicked_'[fClickedLink] = IF highlightLinks
                                     THEN CHtmlDispLink_hover
                                     ELSE CHtmlDispLink_none]_vars

\* C4: after press on hovered clickable link a (the widget tracking links, not
\* selecting), a move to a position without
\* a link, a move onto another clickable link b and a release, no command
\* was dispatched by any of the four events, the armed reference is empty
\* and b is in mode Hover.
C4_DragOffThenRelease ==
    /\ scenD.step \in 1..4 => cmds = <<>>
    /\ scenD.step = 4 =>
          /\ fClickedLink = NoLink
          /\ clicked_[scenD.b] = CHtmlDispLink_hover

\* C4 witness: the gesture has just been completed over two different links.
C4_Witness ==
    /\ scenD.step = 4
    /\ scenD.a # scenD.b
    /\ fHoverLink = scenD.b
    /\ ev.kind = "release"

\* C5: right after a leave event the hovered and the armed reference are
\* empty, every link they pointed to is in mode None, the cursor is the
\* default one and the status text is empty.
C5_LeaveInvalidates ==
    [][ev'.kind = "leave" =>
         /\ fHoverLink' = NoLink
         /\ fClickedLink' = NoLink
         /\ fHoverLink # NoLink => clicked_'[fHoverLink] = CHtmlDispLink_none
         /\ fClickedLink # NoLink =>
                clicked_'[fClickedLink] = CHtmlDispLink_none
         /\ cursor' = ArrowCursor
         /\ statusMsg' = <<>>]_vars

\* C5 witness: a leave has just reset an armed link and a different hovered
\* link.
C5_Witness ==
    /\ ev.kind = "leave"
    /\ Len(calls) = 2
    /\ calls[1].link # calls[2].link
    /\ calls[1].was = CHtmlDispLink_none
    /\ fHoverLink = NoLink
    /\ cursor = ArrowCursor

\* The status text that shows the ALT text of the object at a position.
AltStatusAt(p) == fromUtf8(DispTable[find_by_pos(p)].alt)

\* C6: after a move (not selecting, links enabled) onto an object with
\* non-empty ALT text and no link, the status text is that ALT text and the
\* cursor is the default cursor.
C6_AltTextShown ==
    (/\ ev.kind = "move"
     /\ ~fInSelectMode
     /\ enableLinks
     /\ HasAltAt(ev.pos)
     /\ LinkAt(ev.pos) = NoLink) =>
        /\ statusMsg = AltStatusAt(ev.pos)
        /\ cursor = ArrowCursor

\* True when the position has a display object without ALT text and link.
PlainAt(p) == find_by_pos(p) # NoDisp /\ ~HasAltAt(p) /\ LinkAt(p) = NoLink

\* C7: after a move (not selecting) onto an object with neither ALT text nor
\* a link, no link is hovered, the cursor is the default cursor and the
\* status text is empty.
C7_PlainObjectIdle ==
    (ev.kind = "move" /\ ~fInSelectMode /\ PlainAt(ev.pos)) =>
        /\ fHoverLink = NoLink
        /\ cursor = ArrowCursor
        /\ statusMsg = <<>>

\* C8 as stated: a link-tracking update run at the position of the update
\* run just before it calls set_clicked() on no link.
C8_SecondRunNoCall == ev.again => calls = <<>>

\* C8: a link-tracking update run at the position of the update run just
\* before it changes no link's visual mode, and the only set_clicked() call
\* it can make is set_clicked(none) on the link at the position when that
\* link is not clickable, its display object has no ALT text, and the link
\* is in mode none already.
C8_SecondRunNoModeChange ==
    ev.again =>
        \/ calls = <<>>
        \/ /\ LinkAt(ev.pos) # NoLink
           /\ ~LinkTable[LinkAt(ev.pos)].clickable
           /\ ~HasAltAt(ev.pos)
           /\ calls = <<[link |-> LinkAt(ev.pos),
                         mode |-> CHtmlDispLink_none,
                         was |-> CHtmlDispLink_none]>>

\* C8 witness: the second of two updates at the position of a clickable link
\* that the first one put in Hover.
C8_Witness ==
    /\ ev.again
    /\ fHoverLink # NoLink
    /\ LinkAt(ev.pos) = fHoverLink
    /\ clicked_[fHoverLink] = CHtmlDispLink_hover
    /\ calls = <<>>

\* True when the object at a position is in a clickable link and has no ALT
\* text.
ClickableNoAltAt(p) ==
    /\ LinkAt(p) # NoLink
    /\ LinkTable[LinkAt(p)].clickable
    /\ ~HasAltAt(p)

\* C9: with no hovered and no armed link and both link settings enabled, a
\* link-tracking move onto a clickable link without ALT text makes the cursor
\* pointing-hand, puts the link in Hover, makes it the hovered link and shows
\* its destination as status text.
C9_HoverClickableLink ==
    [][(/\ ev'.kind = "move"
        /\ fHoverLink = NoLink
        /\ fClickedLink = NoLink
        /\ enableLinks
        /\ highlightLinks
        /\ ClickableNoAltAt(ev'.pos)) =>
           /\ cursor' = PointingHandCursor
           /\ clicked_'[LinkAt(ev'.pos)] = CHtmlDispLink_hover
           /\ fHoverLink' = LinkAt(ev'.pos)
           /\ statusMsg' = fromUtf8(LinkTable[LinkAt(ev'.pos)].href)]_vars

\* C9 witness: a move from nothing onto a clickable link without ALT text
\* has just put it in Hover.
C9_Witness ==
    /\ ev.kind = "move"
    /\ ClickableNoAltAt(ev.pos)
    /\ highlightLinks
    /\ Len(calls) = 1
    /\ calls[1] = [link |-> LinkAt(ev.pos), mode |-> CHtmlDispLink_hover,
                   was |-> CHtmlDispLink_none]
    /\ fClickedLink = NoLink

\* C10: a left-button press with no hovered link and selection mode off
\* turns selection mode on with the press position as origin and pushes the
\* range (max offset, max offset); every move with the left button down while
\* selecting pushes exactly (offset of origin, offset of position), and the
\* origin does not change while selection mode stays on.
C10_SelectionDrag ==
    [][/\ (/\ ev'.kind = "press"
           /\ ev'.left
           /\ fHoverLink = NoLink
           /\ ~fInSelectMode) =>
              /\ fInSelectMode'
              /\ fSelectOrigin' = ev'.pos
              /\ pushes' = << <<get_text_ofs_max, get_text_ofs_max>> >>
       /\ ev'.kind = "drag" =>
              pushes' = << <<find_textofs_by_pos(fSelectOrigin),
                             find_textofs_by_pos(ev'.pos)>> >>
       /\ (fInSelectMode /\ fInSelectMode') =>
              fSelectOrigin' = fSelectOrigin]_vars

\* C10 witness: a drag from one position to a position before it has just
\* pushed its range.
C10_Witness ==
    /\ ev.kind = "drag"
    /\ fInSelectMode
    /\ fSelectOrigin > ev.pos
    /\ ev.pos > 0
    /\ pushes = << <<find_textofs_by_pos(fSelectOrigin),
                     find_textofs_by_pos(ev.pos)>> >>

\* C11: a release in selection mode ends selection mode and does nothing
\* else: no command, no selection range pushed, no set_clicked() call, and
\* the links' modes, the hovered reference, the cursor and the status text
\* are unchanged.
C11_ReleaseEndsSelectionOnly ==
    [][(ev'.kind = "release" /\ fInSelectMode) =>
          /\ ~fInSelectMode'
          /\ cmds' = <<>>
          /\ pushes' = <<>>
          /\ calls' = <<>>
          /\ UNCHANGED <<clicked_, fHoverLink, cursor, statusMsg>>]_vars

\* C11 witness: a release has just ended selection mode while a link was
\* armed and hovered, and dispatched nothing.
C11_Witness ==
    /\ ev.kind = "release"
    /\ ~fInSelectMode
    /\ fClickedLink # NoLink
    /\ fClickedLink = fHoverLink
    /\ cmds = <<>>

\* C12: selection mode is never on while the hovered or the armed reference
\* is non-empty.
C12_SelectionExcludesTracking ==
    fInSelectMode => (fHoverLink = NoLink /\ fClickedLink = NoLink)

\* C13: whenever the armed reference is non-empty, the armed link is in
\* mode Clicked.
C13_ArmedIsClicked ==
    fClickedLink # NoLink => clicked_[fClickedLink] = CHtmlDispLink_clicked

\* C14 as stated: after a leave no link is hovered, none is armed and
\* selection mode is off.
C14_LeaveGivesIdle ==
    ev.kind = "leave" =>
        (fHoverLink = NoLink /\ fClickedLink = NoLink /\ ~fInSelectMode)

\* C14: after a leave no link is hovered and none is armed; selection mode
\* and the selection origin are what they were before the leave.
C14_LeaveKeepsSelection ==
    [][ev'.kind = "leave" =>
          /\ fHoverLink' = NoLink
          /\ fClickedLink' = NoLink
          /\ UNCHANGED <<fInSelectMode, fSelectOrigin>>]_vars

\* C14 witness: a leave during a selection has just reset a link, and
\* selection mode is still on.
C14_Witness ==
    /\ ev.kind = "leave"
    /\ fInSelectMode
    /\ held # {}
    /\ fHoverLink = NoLink
    /\ fClickedLink = NoLink

\* C15: in a run with link-following disabled no link is ever in Hover or
\* Clicked, the hovered and the armed reference stay empty and no command is
\* dispatched.
C15_LinksDisabled ==
    ~enableLinks =>
        /\ \A l \in Links : clicked_[l] = CHtmlDispLink_none
        /\ fHoverLink = NoLink
        /\ fClickedLink = NoLink
        /\ cmds = <<>>
        /\ calls = <<>>

\* C15 witness: with link-following disabled, a link-tracking move over a
\* clickable link.
C15_Witness ==
    /\ ~enableLinks
    /\ ev.kind = "move"
    /\ LinkAt(ev.pos) # NoLink
    /\ LinkTable[LinkAt(ev.pos)].clickable
    /\ cursor = ArrowCursor

\* C16: after every link-tracking update at a position the hovered reference
\* is empty or the link the formatter answers at that position; after the
\* update that follows a leave, every link that was hovered or armed before
\* the leave is in mode None unless it is the link at the position.
C16_NoStaleHover ==
    ev.kind = "move" =>
        /\ fHoverLink \in {NoLink, LinkAt(ev.pos)}
        /\ \A l \in held :
               l # LinkAt(ev.pos) => clicked_[l] = CHtmlDispLink_none

\* C16 witness: the move after a leave that reset a hovered and a different
\* armed link has just put a third link in Hover.
C16_Witness ==
    /\ ev.kind = "move"
    /\ Cardinality(held) = 2
    /\ fHoverLink # NoLink
    /\ fHoverLink \notin held
    /\ fHoverLink = LinkAt(ev.pos)

\* C17: no reference of the widget points into a replaced layout: a
\* non-empty hovered or armed reference was taken from the current layout,
\* so that no handler compares, dereferences or mutates a link of a previous
\* layout through it.
C17_NoStaleReference ==
    /\ fHoverLink # NoLink => refGen.hover = layoutGen
    /\ fClickedLink # NoLink => refGen.clicked = layoutGen

\* C17 witness: a re-layout has just invalidated an armed link and a
\* different hovered link.
C17_Witness ==
    /\ ev.kind = "relayout"
    /\ Len(calls) = 2
    /\ calls[1].link # calls[2].link
    /\ fHoverLink = NoLink
    /\ fClickedLink = NoLink
    /\ layoutGen = 1

\* C18: a link-tracking update at a position without a display object
\* performs the full invalidation: both references are empty afterwards, the
\* links they pointed to are in mode None, the cursor is the default one and
\* the status text is empty.
C18_NoObjectInvalidates ==
    [][(ev'.kind = "move" /\ find_by_pos(ev'.pos) = NoDisp) =>
          /\ fHoverLink' = NoLink
          /\ fClickedLink' = NoLink
          /\ fHoverLink # NoLink => clicked_'[fHoverLink] = CHtmlDispLink_none
          /\ fClickedLink # NoLink =>
                 clicked_'[fClickedLink] = CHtmlDispLink_none
          /\ cursor' = ArrowCursor
          /\ statusMsg' = <<>>]_vars

\* C19: after a link-tracking update (links enabled) at a position with a
\* display object, the status text is the object's ALT text if that is not
\* empty, else the destination of the link at the position if that link is
\* clickable, else the status text is empty, the cursor is the default one
\* and no link is hovered.
C19_StatusPrecedence ==
    (ev.kind = "move" /\ enableLinks /\ find_by_pos(ev.pos) # NoDisp) =>
        IF HasAltAt(ev.pos)
        THEN statusMsg = AltStatusAt(ev.pos)
        ELSE IF LinkAt(ev.pos) # NoLink /\ LinkTable[LinkAt(ev.pos)].clickable
        THEN statusMsg = fromUtf8(LinkTable[LinkAt(ev.pos)].href)
        ELSE /\ statusMsg = <<>>
             /\ cursor = ArrowCursor
             /\ fHoverLink = NoLink

\* C20: a press while a link is hovered that is not clickable, or while a
\* link is hovered and link-following is disabled, changes nothing: no
\* set_clicked() call, the links' modes, both references, selection mode and
\* origin unchanged, no selection range pushed.
C20_PressWithoutArming ==
    [][(/\ ev'.kind = "press"
        /\ fHoverLink # NoLink
        /\ (~LinkTable[fHoverLink].clickable \/ ~enableLinks)) =>
           /\ calls' = <<>>
           /\ pushes' = <<>>
           /\ UNCHANGED <<clicked_, fHoverLink, fClickedLink, fInSelectMode,
                          fSelectOrigin>>]_vars

\* C20 witness: a left-button press over a hovered clickable link, with
\* link-following disabled since the link became hovered, has armed nothing.
C20_Witness ==
    /\ ev.kind = "press"
    /\ ev.left
    /\ ~enableLinks
    /\ fHoverLink # NoLink
    /\ LinkTable[fHoverLink].clickable
    /\ fClickedLink = NoLink
    /\ ~fInSelectMode

\* C21: after every release event the armed-link reference (fClickedLink) is
\* empty, whatever the state the release was handled in.
C21_ReleaseDisarms == ev.kind = "release" => fClickedLink = NoLink

\* C22 as stated: while a link is armed, a pointer-move event changes neither
\* the hovered reference, nor the armed reference, nor any link's mode.
C22_MoveWhileArmedNoOp ==
    [][(ev'.kind \in {"move", "drag"} /\ fClickedLink # NoLink)
       => UNCHANGED <<fHoverLink, fClickedLink, clicked_>>]_vars

\* C22 amended: while a link is armed, a pointer-move event keeps the armed
\* reference and gives no link the mode hover or clicked; the hovered
\* reference stays, becomes empty, or becomes the link at the position, and
\* a link's mode stays or is reset to none.
C22_MoveWhileArmedTracks ==
    [][(ev'.kind \in {"move", "drag"} /\ fClickedLink # NoLink)
       => /\ fClickedLink' = fClickedLink
          /\ fHoverLink' \in {fHoverLink, NoLink, LinkAt(ev'.pos)}
          /\ \A l \in Links :
                 clicked_'[l] \in {clicked_[l], CHtmlDispLink_none}
          /\ \A i \in 1..Len(calls') : calls'[i].mode = CHtmlDispLink_none]_vars

C22_Witness ==
    /\ ev.kind = "move"
    /\ fClickedLink # NoLink
    /\ fHoverLink # NoLink
    /\ fHoverLink # fClickedLink
    /\ LinkTable[fHoverLink].clickable
    /\ clicked_[fHoverLink] = CHtmlDispLink_none
    /\ calls # <<>>

\* C23: a press event handled while a link is armed changes neither the
\* armed reference, nor the hovered reference, nor selection mode, nor any
\* link's mode, and pushes no selection range.
C23_PressWhileArmedNoOp ==
    [][(ev'.kind = "press" /\ fClickedLink # NoLink)
       => /\ UNCHANGED <<fClickedLink, fHoverLink, fInSelectMode, clicked_>>
          /\ pushes' = <<>>]_vars

\* C24: a leave event handled in selection mode changes neither selection
\* mode nor the selection origin, and selection mode, once on, stays on
\* through every event that is not a release.
C24_LeaveKeepsDrag ==
    [][/\ (ev'.kind = "leave" /\ fInSelectMode)
          => (fInSelectMode' /\ fSelectOrigin' = fSelectOrigin)
       /\ (fInSelectMode /\ ev'.kind # "release") => fInSelectMode']_vars

C24_Witness ==
    /\ ev.kind = "leave"
    /\ fInSelectMode
    /\ fSelectOrigin # 0
    /\ held # {}

\* C25: a move with the primary button down handled in selection mode pushes
\* one selection range, makes no set_clicked() call, and changes neither the
\* hovered reference, nor the armed reference, nor any link's mode, nor the
\* cursor, nor the status text.
C25_DragDoesNotTrack ==
    [][(ev'.kind \in {"move", "drag"} /\ ev'.left /\ fInSelectMode)
       => /\ Len(pushes') = 1
          /\ calls' = <<>>
          /\ UNCHANGED <<fHoverLink, fClickedLink, clicked_, cursor,
                         statusMsg>>]_vars

C25_Witness ==
    /\ ev.kind = "drag"
    /\ ev.left
    /\ fInSelectMode
    /\ LinkAt(ev.pos) # NoLink
    /\ LinkTable[LinkAt(ev.pos)].clickable
    /\ fHoverLink = NoLink
    /\ cursor = ArrowCursor
    /\ pushes # <<>>

\* C26: once a leave has followed the press that armed a link, no release
\* dispatches a command until a press arms a link again.
C26_LeaveCancelsClick ==
    (ev.kind = "release" /\ click.cancelled # NoLink) => cmds = <<>>

C26_Witness ==
    /\ ev.kind = "release"
    /\ click.cancelled # NoLink
    /\ fHoverLink = click.cancelled
    /\ ~fInSelectMode
    /\ cmds = <<>>

\* C27: a link is put in mode clicked (armed) only by a press event whose
\* primary button is down.
C27_ArmingNeedsLeftButton ==
    \A i \in 1..Len(calls) :
        calls[i].mode = CHtmlDispLink_clicked
            => (ev.kind = "press" /\ ev.left)

\* C28: an event handled right after the same event (same kind, position and
\* button) leaves the hovered and armed references, selection mode and
\* origin, every link's mode, the cursor and the status text as the first
\* one left them.
C28_HandlersIdempotent ==
    [][(/\ ev'.kind = ev.kind
        /\ ev'.pos = ev.pos
        /\ ev'.left = ev.left)
       => UNCHANGED <<fHoverLink, fClickedLink, fInSelectMode, fSelectOrigin,
                      clicked_, cursor, statusMsg>>]_vars

\* C29 as stated: with link-following disabled, a move onto a display object
\* with non-empty ALT text leaves that text, decoded, in the status bar.
C29_AltShownWhenDisabled ==
    (ev.kind = "move" /\ ~enableLinks /\ HasAltAt(ev.pos))
        => statusMsg = AltStatusAt(ev.pos)

\* C29 amended: with link-following disabled, a move onto a display object
\* with non-empty ALT text leaves the status bar empty, the cursor default
\* and no link hovered.
C29_AltHiddenWhenDisabled ==
    (ev.kind = "move" /\ ~enableLinks /\ HasAltAt(ev.pos))
        => /\ statusMsg = <<>>
           /\ cursor = ArrowCursor
           /\ fHoverLink = NoLink

C29_Witness ==
    /\ ev.kind = "move"
    /\ ~enableLinks
    /\ HasAltAt(ev.pos)
    /\ calls # <<>>
    /\ statusMsg = <<>>

\* C30: in every reachable state every link whose mode is not none is the
\* hovered link.
C30_ModeOnlyOnHovered ==
    \A l \in Links : clicked_[l] # CHtmlDispLink_none => l = fHoverLink

C30_Witness ==
    /\ ev.kind = "move"
    /\ calls # <<>>
    /\ calls[1].was # CHtmlDispLink_none
    /\ calls[1].link # fHoverLink
    /\ fHoverLink # NoLink
    /\ clicked_[fHoverLink] = CHtmlDispLink_hover

\* C31: a command is dispatched only by a release, and the link whose
\* command it is was armed by a press with neither a leave nor a release
\* outside selection mode handled since; the dispatching release uses that
\* arming up, so one arming press leads to at most one dispatch.
C31_DispatchFollowsArming ==
    [][cmds' # <<>>
       => /\ ev'.kind = "release"
          /\ click.armed # NoLink
          /\ cmds' = <<processCommand(click.armed)>>
          /\ click'.armed = NoLink]_vars

C31_Witness ==
    /\ ev.kind = "release"
    /\ cmds # <<>>
    /\ click.armed = NoLink
    /\ fClickedLink = NoLink
    /\ fHoverLink # NoLink
    /\ cmds[1] = processCommand(fHoverLink)

\* C32: in every reachable state in which the cursor is pointing-hand, the
\* hovered reference is a clickable link.
C32_HandOnlyOverClickable ==
    cursor = PointingHandCursor
        => (fHoverLink # NoLink /\ LinkTable[fHoverLink].clickable)

\* C33: with link highlighting disabled no link is in mode hover.
C33_NoHoverWithoutHighlight ==
    ~highlightLinks => \A l \in Links : clicked_[l] # CHtmlDispLink_hover

\* C34: a link that is not clickable is always in mode none.
C34_OnlyClickableGetMode ==
    \A l \in Links :
        ~LinkTable[l].clickable => clicked_[l] = CHtmlDispLink_none

\* C35: the selection origin changes only at a press that turns selection
\* mode on; in selection mode a move, a leave or a press keeps the origin,
\* and pushes either nothing or, in a drag, the range from the origin to the
\* event's position.
C35_OriginSetOnce ==
    [][/\ fSelectOrigin' # fSelectOrigin
          => (ev'.kind = "press" /\ ~fInSelectMode /\ fInSelectMode')
       /\ (fInSelectMode /\ ev'.kind \in {"move", "drag", "leave", "press"})
          => /\ fSelectOrigin' = fSelectOrigin
             /\ \/ pushes' = <<>>
                \/ /\ ev'.kind = "drag"
                   /\ pushes' = <<dragRange(fSelectOrigin, ev'.pos)>>]_vars

C35_Witness ==
    /\ ev.kind = "press"
    /\ ev.left
    /\ fInSelectMode
    /\ fHoverLink = NoLink
    /\ ev.pos # fSelectOrigin
    /\ fSelectOrigin # 0
    /\ pushes = <<>>
====
